---- MODULE Spec2Model ----
(***************************************************************************)
(* Chunk-parallel mutation scripts of hut8/soar:                           *)
(*   scripts/data-migrations/_lib.py                                       *)
(*   scripts/data-migrations/001_cleanup_address_zero_aircraft.py          *)
(*   scripts/update_fixes_parallel.py                                      *)
(* The database (the hypertable's chunks, their compression flags and the  *)
(* rows the mutation predicate matches) is the environment; every psql     *)
(* call is one atomic step that either succeeds and has the effect of its  *)
(* statement, or fails (non-zero return code) and has none.                *)
(***************************************************************************)
EXTENDS Integers, Sequences, FiniteSets, TLC

\* ------------------------------------------------------------------ bounds
MaxChunks == 2     \* chunks in the catalog: 0..MaxChunks
MaxRows == 1       \* rows matching the predicate in one chunk: 0..MaxRows
MaxPar == 2        \* the parallelism argument: 0..MaxPar
MaxFail == 2       \* psql calls that fail in the first run: 0..MaxFail
MaxLen == 2        \* characters after the command tag's name in a parsed text: 0..MaxLen

\* ------------------------------------------------------------------ text
\* Text is a sequence of one-character strings. Python's None is a value that
\* is no text: a sequence whose only element is not a single character.
None == <<"None">>

DigitChar == <<"0", "1", "2", "3", "4", "5", "6", "7", "8", "9">>

IsDigit(ch) == \E d \in 1..10 : DigitChar[d] = ch

DigitVal(ch) == (CHOOSE d \in 1..10 : DigitChar[d] = ch) - 1

IsSpace(ch) == ch \in {" ", "\n", "\t"}

\* str(n) for n >= 0
RECURSIVE Digits(_)
Digits(n) == IF n < 10 THEN <<DigitChar[n + 1]>>
             ELSE Digits(n \div 10) \o <<DigitChar[(n % 10) + 1]>>

\* the least index at which t occurs in s, 0 when it does not (str.find + 1)
Find(s, t) ==
    LET hits == {i \in 1..(Len(s) - Len(t) + 1) : SubSeq(s, i, i + Len(t) - 1) = t}
    IN  IF hits = {} THEN 0 ELSE CHOOSE i \in hits : \A j \in hits : i <= j

\* s.split(t)[1]: the text between the first occurrence of t and the next one
SplitSecond(s, t) ==
    LET rest == SubSeq(s, Find(s, t) + Len(t), Len(s))
        nxt  == Find(rest, t)
    IN  IF nxt = 0 THEN rest ELSE SubSeq(rest, 1, nxt - 1)

RECURSIVE LStrip(_)
LStrip(s) == IF s # <<>> /\ IsSpace(Head(s)) THEN LStrip(Tail(s)) ELSE s

RECURSIVE RStrip(_)
RStrip(s) == IF s # <<>> /\ IsSpace(s[Len(s)]) THEN RStrip(SubSeq(s, 1, Len(s) - 1)) ELSE s

Strip(s) == RStrip(LStrip(s))

\* int(s) succeeds on a non-empty run of decimal digits (ValueError otherwise)
IsInt(s) == s # <<>> /\ \A i \in 1..Len(s) : IsDigit(s[i])

RECURSIVE IntOf(_)
IntOf(s) == IF s = <<>> THEN 0 ELSE 10 * IntOf(SubSeq(s, 1, Len(s) - 1)) + DigitVal(s[Len(s)])

DELETE == <<"D", "E", "L", "E", "T", "E">>

\* psql -c prints the command tag "DELETE <n>" of a successful DELETE
DeleteTag(n) == DELETE \o <<" ">> \o Digits(n)

\* parse_delete_count without its try/except: -1 stands for the ValueError that int()
\* raises and nothing catches
ParseUncaught(output) ==
    IF output # None /\ output # <<>> /\ Find(output, DELETE) # 0
    THEN LET txt == Strip(SplitSecond(output, DELETE))
         IN  IF IsInt(txt) THEN IntOf(txt) ELSE -1
    ELSE 0

\* _lib.parse_delete_count; the same code is inlined in process_compressed_chunk
parse_delete_count(output) ==
    IF output # None /\ output # <<>> /\ Find(output, DELETE) # 0
    THEN LET txt == Strip(SplitSecond(output, DELETE))
         IN  IF IsInt(txt) THEN IntOf(txt) ELSE 0
    ELSE 0


\* s.split(sep) for a one-character separator
RECURSIVE Split(_, _)
Split(s, sep) ==
    LET i == Find(s, <<sep>>)
    IN  IF i = 0 THEN <<s>>
        ELSE <<SubSeq(s, 1, i - 1)>> \o Split(SubSeq(s, i + 1, Len(s)), sep)

\* sep.join(parts)
RECURSIVE Join(_, _)
Join(parts, sep) ==
    IF parts = <<>> THEN <<>>
    ELSE IF Len(parts) = 1 THEN parts[1]
    ELSE parts[1] \o sep \o Join(Tail(parts), sep)

RECURSIVE SumOver(_, _)
SumOver(f, S) == IF S = {} THEN 0
                 ELSE LET x == CHOOSE y \in S : TRUE IN f[x] + SumOver(f, S \ {x})

\* ---------------------------------------------------------------- state
VARIABLES
    \* the database
    is_compressed,   \* chunk -> its compression flag
    rows,            \* chunk -> number of its fixes rows whose aircraft has address = 0
    bad_aircraft,    \* whether the aircraft table holds an aircraft with address = 0
    merge_mapping,   \* whether the table aircraft_merge_mapping exists
    script,          \* the script that runs: migration_001 or update_fixes_parallel
    \* migration 001
    PARALLELISM,     \* int(sys.argv[2])
    pc,              \* main()'s position
    BAD_IDS_SQL,     \* the module-level filter text
    total_fixes,     \* the initial count's output
    chunks,          \* get_chunks()'s list
    output,          \* the output of step 1's statement
    fut,             \* chunk -> position of its future: none, queued, decompress,
                     \*          delete, compress (inside process_compressed_chunk),
                     \*          finished, collected
    deleted,         \* chunk -> the count its task returned
    completed,
    total_deleted,
    remaining,       \* the verification count's output
    exit_code,       \* the process's exit status once it has ended
    \* history
    issued,          \* chunk -> the commands issued for it, in order
    step1_from,      \* the range starts of the step 1 statements issued
    updates,         \* the number of UPDATE statements issued
    errs,            \* the psql calls of this run that returned non-zero
    rows0,           \* rows when this run started
    run,             \* first, or rerun for a run that follows another one
    prev             \* the previous run: how it ended (none, clean, failed, interrupted)
                     \* and the rows it removed

static == <<bad_aircraft, merge_mapping, script>>
db == <<is_compressed, rows, static>>
prog == <<PARALLELISM, pc, BAD_IDS_SQL, total_fixes, chunks, output, fut, deleted,
          completed, total_deleted, remaining, exit_code>>
hist == <<issued, step1_from, updates, errs, rows0, run, prev>>
vars == <<db, prog, hist>>

\* ------------------------------------------------------------- database
Chunks == DOMAIN rows

\* Chunk c covers the half-open time range [c, c + 1): ranges are contiguous and
\* ordered as the catalog's ORDER BY range_start lists them.
RangeStart(c) == c
RangeEnd(c) == c + 1

\* chunk_schema || '.' || chunk_name
ChunkName(c) == <<"_", "t", ".", "c">> \o Digits(c)

\* the chunk a decompress_chunk('<name>') / compress_chunk('<name>') names
ChunkOf(name) == IntOf(SubSeq(name, 5, Len(name)))

\* the aircraft ids SELECT id FROM aircraft WHERE address = 0 prints, one per line
AircraftStdout == IF bad_aircraft THEN <<"7", "\n">> ELSE <<>>

\* aircraft_id IN (<ids>) selects the orphaned fixes when <ids> lists the address = 0 aircraft
Selects(ids) == bad_aircraft /\ ids = <<"'", "7", "'">>


\* ChunksFrom for a statement bounded above by the end of the chunk it starts at
ChunksFromFirstOnly(lo) == {c \in Chunks : RangeStart(c) = IntOf(lo)}

\* ChunksFrom for a statement that removes one batch a call: the rows of the first
\* chunk in the range that has any
ChunksFromBatch(lo) ==
    {c \in Chunks : /\ RangeStart(c) >= IntOf(lo)
                    /\ rows[c] > 0
                    /\ \A d \in Chunks : (RangeStart(d) >= IntOf(lo) /\ rows[d] > 0) => c <= d}

\* the chunks whose rows satisfy received_at >= lo
ChunksFrom(lo) == {c \in Chunks : RangeStart(c) >= IntOf(lo)}

\* the chunks whose rows satisfy received_at >= lo AND received_at < hi
ChunksBetween(lo, hi) == {c \in Chunks : RangeStart(c) >= IntOf(lo) /\ RangeEnd(c) <= IntOf(hi)}

\* the rows a DELETE ... WHERE aircraft_id IN (ids) restricted to chunks S removes
Matched(ids, S) == IF Selects(ids) THEN SumOver(rows, S) ELSE 0

AfterDelete(ids, S) == [c \in Chunks |-> IF Selects(ids) /\ c \in S THEN 0 ELSE rows[c]]

\* timescaledb_information.chunks for hypertable fixes, psql -tA: one line per chunk
CatalogLine(c) ==
    ChunkName(c) \o <<"|">> \o (IF is_compressed[c] THEN <<"t", "r", "u", "e">>
                                 ELSE <<"f", "a", "l", "s", "e">>)
    \o <<"|">> \o Digits(RangeStart(c)) \o <<"|">> \o Digits(RangeEnd(c))

CatalogStdout == Join([c \in 1..Cardinality(Chunks) |-> CatalogLine(c)], <<"\n">>) \o <<"\n">>

\* ----------------------------------------------------------- SQL executor
\* The outcomes a psql call can have now: it succeeds, or (at most MaxFail times, and
\* in a first run only: a re-run is one in which every statement succeeds) it returns
\* non-zero.
Outcomes == {TRUE} \cup (IF run = "first" /\ Cardinality(errs) < MaxFail THEN {FALSE} ELSE {})

Stmt(op, c) == [op |-> op, chunk |-> c]

Failed(ok, op, c) == IF ok THEN errs ELSE errs \cup {Stmt(op, c)}

\* run_sql(sql, return_output=True): None on a non-zero return code
run_sql(ok, stdout) == IF ok THEN Strip(stdout) ELSE None

\* run_sql_command(sql)
run_sql_command(ok, stdout) == IF ok THEN Strip(stdout) ELSE None

\* `if not output`
Falsy(out) == out = None \/ out = <<>>


\* ---------------------------------------------------------- migration 001
\* get_chunks(): the catalog's lines parsed into chunk dicts; [] when run_sql
\* returned None or no text
get_chunks(out) ==
    IF Falsy(out) THEN <<>>
    ELSE LET lines == Split(Strip(out), "\n")
             good  == SelectSeq(lines, LAMBDA l : Len(Split(l, "|")) = 4)
         IN  [i \in 1..Len(good) |->
                LET parts == Split(good[i], "|")
                IN  [name        |-> Strip(parts[1]),
                     compressed  |-> Strip(parts[2]) = <<"t", "r", "u", "e">>,
                     range_start |-> Strip(parts[3]),
                     range_end   |-> Strip(parts[4])]]

\* compressed for a classification that takes every chunk of the catalog
CompressedAll == chunks

\* compressed = [c for c in chunks if c["compressed"]]
compressed == SelectSeq(chunks, LAMBDA c : c.compressed)

\* uncompressed = [c for c in chunks if not c["compressed"]]
uncompressed == SelectSeq(chunks, LAMBDA c : ~c.compressed)

\* TaskChunk for tasks that are all bound to the last chunk of the list
TaskChunkLast(c) == compressed[Len(compressed)]

\* the chunk dict executor.submit bound to the task of chunk c
TaskChunk(c) == CHOOSE ch \in {compressed[i] : i \in 1..Len(compressed)} : ChunkOf(ch.name) = c

\* the tasks a worker thread is running
Running == {c \in Chunks : fut[c] \in {"decompress", "delete", "compress"}}

Init ==
    /\ \E n \in 0..MaxChunks :
         /\ is_compressed \in [1..n -> BOOLEAN]
         /\ rows \in [1..n -> 0..MaxRows]
    /\ script = "migration_001"
    /\ merge_mapping = FALSE
    /\ bad_aircraft \in BOOLEAN
    /\ bad_aircraft = FALSE => \A c \in Chunks : rows[c] = 0
    /\ PARALLELISM \in 0..MaxPar
    /\ pc = "discover"
    /\ BAD_IDS_SQL = <<>>
    /\ total_fixes = None
    /\ chunks = <<>>
    /\ output = None
    /\ fut = [c \in Chunks |-> "none"]
    /\ deleted = [c \in Chunks |-> 0]
    /\ completed = 0
    /\ total_deleted = 0
    /\ remaining = None
    /\ exit_code = 0
    /\ issued = [c \in Chunks |-> <<>>]
    /\ step1_from = <<>>
    /\ updates = 0
    /\ errs = {}
    /\ rows0 = rows
    /\ run = "first"
    /\ prev = [how |-> "none", removed |-> 0]

\* main(), lines 122-129: discover the aircraft with address = 0
Discover ==
    /\ pc = "discover"
    /\ \E ok \in Outcomes :
         LET out == run_sql(ok, AircraftStdout)
         IN  /\ errs' = Failed(ok, "discover", 0)
             /\ IF Falsy(out)
                THEN /\ pc' = "done"
                     /\ exit_code' = 0
                     /\ UNCHANGED BAD_IDS_SQL
                ELSE /\ pc' = "count"
                     /\ BAD_IDS_SQL' = <<"'">> \o Join(Split(Strip(out), "\n"), <<"'", ",", "'">>) \o <<"'">>
                     /\ UNCHANGED exit_code
    /\ UNCHANGED <<db, PARALLELISM, total_fixes, chunks, output, fut, deleted, completed,
                   total_deleted, remaining, issued, step1_from, updates, rows0, run, prev>>

\* CountFixes for a main() without the `Nothing to do!` return
CountFixesNoReturn ==
    /\ pc = "count"
    /\ \E ok \in Outcomes :
         LET out == run_sql(ok, Digits(Matched(BAD_IDS_SQL, Chunks)) \o <<"\n">>)
         IN  /\ errs' = Failed(ok, "count", 0)
             /\ total_fixes' = out
             /\ pc' = "get_chunks"
             /\ UNCHANGED exit_code
    /\ UNCHANGED <<db, PARALLELISM, BAD_IDS_SQL, chunks, output, fut, deleted, completed,
                   total_deleted, remaining, issued, step1_from, updates, rows0, run, prev>>

\* main(), lines 136-145: count the orphaned fixes
CountFixes ==
    /\ pc = "count"
    /\ \E ok \in Outcomes :
         LET out == run_sql(ok, Digits(Matched(BAD_IDS_SQL, Chunks)) \o <<"\n">>)
         IN  /\ errs' = Failed(ok, "count", 0)
             /\ total_fixes' = out
             /\ IF out = <<"0">>
                THEN pc' = "done" /\ exit_code' = 0
                ELSE pc' = "get_chunks" /\ UNCHANGED exit_code
    /\ UNCHANGED <<db, PARALLELISM, BAD_IDS_SQL, chunks, output, fut, deleted, completed,
                   total_deleted, remaining, issued, step1_from, updates, rows0, run, prev>>

\* main(), lines 149-153: read the catalog and classify
GetChunks ==
    /\ pc = "get_chunks"
    /\ \E ok \in Outcomes :
         /\ errs' = Failed(ok, "get_chunks", 0)
         /\ chunks' = get_chunks(run_sql(ok, CatalogStdout))
    /\ pc' = "step1"
    /\ UNCHANGED <<db, PARALLELISM, BAD_IDS_SQL, total_fixes, output, fut, deleted, completed,
                   total_deleted, remaining, exit_code, issued, step1_from, updates, rows0, run, prev>>


\* Step1 falling back to a DELETE of the whole table when no chunk is uncompressed
Step1Unscoped ==
    /\ pc = "step1"
    /\ \E ok \in Outcomes :
         LET lo == IF uncompressed # <<>> THEN uncompressed[1].range_start ELSE <<"0">>
             S  == ChunksFrom(lo)
         IN  /\ output' = run_sql_command(ok, <<"S", "E", "T", "\n">>
                                              \o DeleteTag(Matched(BAD_IDS_SQL, S)) \o <<"\n">>)
             /\ rows' = IF ok THEN AfterDelete(BAD_IDS_SQL, S) ELSE rows
             /\ errs' = Failed(ok, "step1", 0)
             /\ step1_from' = Append(step1_from, IntOf(lo))
    /\ pc' = "step2"
    /\ UNCHANGED <<is_compressed, static, PARALLELISM, BAD_IDS_SQL, total_fixes, chunks,
                   fut, deleted, completed, total_deleted, remaining, exit_code, issued,
                   updates, rows0, run, prev>>

\* main(), lines 155-166: one DELETE ... WHERE received_at >= uncompressed[0].range_start,
\* with the decompression limit of a DML transaction disabled
Step1 ==
    /\ pc = "step1"
    /\ IF uncompressed # <<>>
       THEN \E ok \in Outcomes :
              LET S == ChunksFrom(uncompressed[1].range_start)
              IN  /\ output' = run_sql_command(ok, <<"S", "E", "T", "\n">>
                                                   \o DeleteTag(Matched(BAD_IDS_SQL, S)) \o <<"\n">>)
                  /\ rows' = IF ok THEN AfterDelete(BAD_IDS_SQL, S) ELSE rows
                  /\ errs' = Failed(ok, "step1", 0)
                  /\ step1_from' = Append(step1_from, IntOf(uncompressed[1].range_start))
       ELSE /\ output' = DeleteTag(0)
            /\ UNCHANGED <<rows, errs, step1_from>>
    /\ pc' = "step2"
    /\ UNCHANGED <<is_compressed, static, PARALLELISM, BAD_IDS_SQL, total_fixes, chunks,
                   fut, deleted, completed, total_deleted, remaining, exit_code, issued,
                   updates, rows0, run, prev>>

\* main(), lines 169-175: `if compressed:` and ThreadPoolExecutor(max_workers=PARALLELISM),
\* which raises ValueError for max_workers <= 0
Step2 ==
    /\ pc = "step2"
    /\ IF compressed = <<>>
       THEN pc' = "verify" /\ UNCHANGED exit_code
       ELSE IF PARALLELISM <= 0
            THEN pc' = "done" /\ exit_code' = 1
            ELSE pc' = "submit" /\ UNCHANGED exit_code
    /\ UNCHANGED <<db, PARALLELISM, BAD_IDS_SQL, total_fixes, chunks, output, fut, deleted,
                   completed, total_deleted, remaining, hist>>


\* Submit for a pool that is filled while step 1's statement is still to be issued
SubmitBeforeStep1 ==
    /\ pc \in {"step1", "submit"}
    /\ LET pending == {i \in 1..Len(compressed) : fut[ChunkOf(compressed[i].name)] = "none"}
           i == CHOOSE j \in pending : \A k \in pending : j <= k
       IN  /\ pending # {}
           /\ fut' = [fut EXCEPT ![ChunkOf(compressed[i].name)] = "queued"]
           /\ pc' = IF pc = "step1" THEN pc ELSE IF pending = {i} THEN "collect" ELSE "submit"
    /\ UNCHANGED <<db, PARALLELISM, BAD_IDS_SQL, total_fixes, chunks, output, deleted,
                   completed, total_deleted, remaining, exit_code, hist>>

\* Submit for a pool whose submit() waits while every worker is busy
SubmitBlocking ==
    /\ pc = "submit"
    /\ Cardinality({c \in Chunks : fut[c] \in {"queued", "decompress", "delete", "compress"}})
         < PARALLELISM
    /\ LET pending == {i \in 1..Len(compressed) : fut[ChunkOf(compressed[i].name)] = "none"}
           i == CHOOSE j \in pending : \A k \in pending : j <= k
       IN  /\ pending # {}
           /\ fut' = [fut EXCEPT ![ChunkOf(compressed[i].name)] = "queued"]
           /\ pc' = IF pending = {i} THEN "collect" ELSE "submit"
    /\ UNCHANGED <<db, PARALLELISM, BAD_IDS_SQL, total_fixes, chunks, output, deleted,
                   completed, total_deleted, remaining, exit_code, hist>>

\* the dict comprehension of lines 176-179 submits one task per compressed chunk, in
\* list order; submit() queues the work item and returns at once
Submit ==
    /\ pc = "submit"
    /\ LET pending == {i \in 1..Len(compressed) : fut[ChunkOf(compressed[i].name)] = "none"}
           i == CHOOSE j \in pending : \A k \in pending : j <= k
       IN  /\ pending # {}
           /\ fut' = [fut EXCEPT ![ChunkOf(compressed[i].name)] = "queued"]
           /\ pc' = IF pending = {i} THEN "collect" ELSE "submit"
    /\ UNCHANGED <<db, PARALLELISM, BAD_IDS_SQL, total_fixes, chunks, output, deleted,
                   completed, total_deleted, remaining, exit_code, hist>>


\* CanStart with a thread started for every queued work item
CanStartUncapped(c) ==
    /\ fut[c] = "queued"
    /\ \A d \in Chunks : fut[d] = "queued" => c <= d

\* CanStart for a pool that keeps one of its max_workers threads unused
CanStartBelowCap(c) ==
    /\ fut[c] = "queued"
    /\ \A d \in Chunks : fut[d] = "queued" => c <= d
    /\ Cardinality(Running) + 1 < PARALLELISM

\* ThreadPoolExecutor(max_workers=PARALLELISM): a worker thread takes the oldest
\* queued work item; there are never more than max_workers threads
CanStart(c) ==
    /\ fut[c] = "queued"
    /\ \A d \in Chunks : fut[d] = "queued" => c <= d
    /\ Cardinality(Running) < PARALLELISM

\* a worker thread enters process_compressed_chunk(chunk) (process_chunk in _lib)
Start(c) ==
    /\ script = "migration_001"
    /\ CanStart(c)
    /\ fut' = [fut EXCEPT ![c] = "decompress"]
    /\ UNCHANGED <<db, PARALLELISM, pc, BAD_IDS_SQL, total_fixes, chunks, output, deleted,
                   completed, total_deleted, remaining, exit_code, hist>>

\* Decompress for a task that goes to its DELETE without a decompress command
DecompressSkipped(c) ==
    /\ script = "migration_001"
    /\ fut[c] = "decompress"
    /\ fut' = [fut EXCEPT ![c] = "delete"]
    /\ UNCHANGED <<db, PARALLELISM, pc, BAD_IDS_SQL, total_fixes, chunks, output, deleted,
                   completed, total_deleted, remaining, exit_code, hist>>

\* Decompress for a task that returns when its decompress command failed
DecompressFatal(c) ==
    /\ script = "migration_001"
    /\ fut[c] = "decompress"
    /\ \E ok \in Outcomes :
         LET target == ChunkOf(TaskChunk(c).name)
         IN  /\ is_compressed' = IF ok THEN [is_compressed EXCEPT ![target] = FALSE]
                                 ELSE is_compressed
             /\ errs' = Failed(ok, "decompress", c)
             /\ issued' = [issued EXCEPT ![target] = Append(@, "decompress")]
             /\ fut' = [fut EXCEPT ![c] = IF ok THEN "delete" ELSE "finished"]
    /\ UNCHANGED <<rows, static, PARALLELISM, pc, BAD_IDS_SQL, total_fixes, chunks,
                   output, deleted, completed, total_deleted, remaining, exit_code,
                   step1_from, updates, rows0, run, prev>>

\* run_sql(f"SELECT decompress_chunk('{name}');"), its result dropped
Decompress(c) ==
    /\ script = "migration_001"
    /\ fut[c] = "decompress"
    /\ \E ok \in Outcomes :
         LET target == ChunkOf(TaskChunk(c).name)
         IN  /\ is_compressed' = IF ok THEN [is_compressed EXCEPT ![target] = FALSE]
                                 ELSE is_compressed
             /\ errs' = Failed(ok, "decompress", c)
             /\ issued' = [issued EXCEPT ![target] = Append(@, "decompress")]
    /\ fut' = [fut EXCEPT ![c] = "delete"]
    /\ UNCHANGED <<rows, static, PARALLELISM, pc, BAD_IDS_SQL, total_fixes, chunks,
                   output, deleted, completed, total_deleted, remaining, exit_code,
                   step1_from, updates, rows0, run, prev>>


\* AfterMutation returning from the task when the DELETE failed
AfterMutationReturnOnError(out) == IF out = None THEN "finished" ELSE "compress"

\* where process_chunk goes once run_sql_command has returned `out`
AfterMutation(out) == "compress"

\* the DELETE scoped to the chunk's range, and the parse of its command tag
Delete(c) ==
    /\ fut[c] = "delete"
    /\ \E ok \in Outcomes :
         LET ch == TaskChunk(c)
             S  == ChunksBetween(ch.range_start, ch.range_end)
         IN  \E out \in {run_sql_command(ok, DeleteTag(Matched(BAD_IDS_SQL, S)) \o <<"\n">>)} :
               /\ rows' = IF ok THEN AfterDelete(BAD_IDS_SQL, S) ELSE rows
               /\ errs' = Failed(ok, "delete", c)
               /\ issued' = [issued EXCEPT ![ChunkOf(ch.name)] = Append(@, "delete")]
               /\ deleted' = [deleted EXCEPT ![c] = parse_delete_count(out)]
               /\ fut' = [fut EXCEPT ![c] = AfterMutation(out)]
    /\ UNCHANGED <<is_compressed, static, PARALLELISM, pc, BAD_IDS_SQL, total_fixes,
                   chunks, output, completed, total_deleted, remaining, exit_code,
                   step1_from, updates, rows0, run, prev>>

\* Recompress for a task that reports no rows when its compress command failed
RecompressEscalates(c) ==
    /\ script = "migration_001"
    /\ fut[c] = "compress"
    /\ \E ok \in Outcomes :
         LET target == ChunkOf(TaskChunk(c).name)
         IN  /\ is_compressed' = IF ok THEN [is_compressed EXCEPT ![target] = TRUE]
                                 ELSE is_compressed
             /\ errs' = Failed(ok, "compress", c)
             /\ issued' = [issued EXCEPT ![target] = Append(@, "compress")]
             /\ deleted' = [deleted EXCEPT ![c] = IF ok THEN @ ELSE 0]
    /\ fut' = [fut EXCEPT ![c] = "finished"]
    /\ UNCHANGED <<rows, static, PARALLELISM, pc, BAD_IDS_SQL, total_fixes, chunks,
                   output, completed, total_deleted, remaining, exit_code,
                   step1_from, updates, rows0, run, prev>>

\* run_sql(f"SELECT compress_chunk('{name}');"), its result dropped; the task returns
Recompress(c) ==
    /\ script = "migration_001"
    /\ fut[c] = "compress"
    /\ \E ok \in Outcomes :
         LET target == ChunkOf(TaskChunk(c).name)
         IN  /\ is_compressed' = IF ok THEN [is_compressed EXCEPT ![target] = TRUE]
                                 ELSE is_compressed
             /\ errs' = Failed(ok, "compress", c)
             /\ issued' = [issued EXCEPT ![target] = Append(@, "compress")]
    /\ fut' = [fut EXCEPT ![c] = "finished"]
    /\ UNCHANGED <<rows, static, PARALLELISM, pc, BAD_IDS_SQL, total_fixes, chunks,
                   output, deleted, completed, total_deleted, remaining, exit_code,
                   step1_from, updates, rows0, run, prev>>


\* subprocess.run raises inside a task (OSError: psql could not be started); nothing in
\* process_compressed_chunk catches it, the worker stores it in the task's future
Raise(c) ==
    /\ script = "migration_001"
    /\ fut[c] \in {"decompress", "delete", "compress"}
    /\ run = "first"
    /\ Cardinality(errs) < MaxFail
    /\ errs' = errs \cup {Stmt("raise", c)}
    /\ fut' = [fut EXCEPT ![c] = "raised"]
    /\ UNCHANGED <<db, PARALLELISM, pc, BAD_IDS_SQL, total_fixes, chunks, output, deleted,
                   completed, total_deleted, remaining, exit_code, issued, step1_from,
                   updates, rows0, run, prev>>

\* Collect keeping the last task's count in place of the sum
CollectLast(c) ==
    /\ pc = "collect"
    /\ fut[c] = "finished"
    /\ completed' = completed + 1
    /\ total_deleted' = deleted[c]
    /\ fut' = [fut EXCEPT ![c] = "collected"]
    /\ UNCHANGED <<db, PARALLELISM, pc, BAD_IDS_SQL, total_fixes, chunks, output, deleted,
                   remaining, exit_code, hist>>

\* Collect for a loop that numbers a result by its place in the submission order
CollectByIndex(c) ==
    /\ pc = "collect"
    /\ fut[c] = "finished"
    /\ completed' = CHOOSE i \in 1..Len(compressed) : ChunkOf(compressed[i].name) = c
    /\ total_deleted' = total_deleted + deleted[c]
    /\ fut' = [fut EXCEPT ![c] = "collected"]
    /\ UNCHANGED <<db, PARALLELISM, pc, BAD_IDS_SQL, total_fixes, chunks, output, deleted,
                   remaining, exit_code, hist>>

\* Collect for a main() that clears the global filter once a result is in
CollectClearsFilter(c) ==
    /\ pc = "collect"
    /\ fut[c] = "finished"
    /\ completed' = completed + 1
    /\ total_deleted' = total_deleted + deleted[c]
    /\ fut' = [fut EXCEPT ![c] = "collected"]
    /\ BAD_IDS_SQL' = <<>>
    /\ UNCHANGED <<db, PARALLELISM, pc, total_fixes, chunks, output, deleted,
                   remaining, exit_code, hist>>

\* one turn of `for future in as_completed(futures)`
Collect(c) ==
    /\ pc = "collect"
    /\ fut[c] = "finished"
    /\ completed' = completed + 1
    /\ total_deleted' = total_deleted + deleted[c]
    /\ fut' = [fut EXCEPT ![c] = "collected"]
    /\ UNCHANGED <<db, PARALLELISM, pc, BAD_IDS_SQL, total_fixes, chunks, output, deleted,
                   remaining, exit_code, hist>>

\* a turn of the loop whose future holds an exception: `completed += 1`, then
\* future.result() raises it in main(), which leaves the loop and the with block
CollectRaised(c) ==
    /\ pc = "collect"
    /\ fut[c] = "raised"
    /\ completed' = completed + 1
    /\ pc' = "shutdown"
    /\ UNCHANGED <<db, PARALLELISM, BAD_IDS_SQL, total_fixes, chunks, output, fut, deleted,
                   total_deleted, remaining, exit_code, hist>>

\* ThreadPoolExecutor.__exit__ is shutdown(wait=True): the queued tasks still run and
\* main() waits for them; then the exception ends the process with a traceback
Shutdown ==
    /\ pc = "shutdown"
    /\ \A c \in Chunks : fut[c] \notin {"queued", "decompress", "delete", "compress"}
    /\ pc' = "done"
    /\ exit_code' = 1
    /\ UNCHANGED <<db, PARALLELISM, BAD_IDS_SQL, total_fixes, chunks, output, fut, deleted,
                   completed, total_deleted, remaining, hist>>

\* Step2Done for a main() that goes on to verify once one result is in
Step2DoneEarly ==
    /\ pc = "collect"
    /\ completed >= 1
    /\ pc' = "verify"
    /\ UNCHANGED <<db, PARALLELISM, BAD_IDS_SQL, total_fixes, chunks, output, fut, deleted,
                   completed, total_deleted, remaining, exit_code, hist>>

\* as_completed is exhausted, the with block shuts the pool down, the total is printed
Step2Done ==
    /\ pc = "collect"
    /\ completed = Len(compressed)
    /\ pc' = "verify"
    /\ UNCHANGED <<db, PARALLELISM, BAD_IDS_SQL, total_fixes, chunks, output, fut, deleted,
                   completed, total_deleted, remaining, exit_code, hist>>

\* main(), lines 191-205: the verification count; main returns either way
Verify ==
    /\ pc = "verify"
    /\ \E ok \in Outcomes :
         /\ remaining' = run_sql(ok, Digits(Matched(BAD_IDS_SQL, Chunks)) \o <<"\n">>)
         /\ errs' = Failed(ok, "verify", 0)
    /\ pc' = "done"
    /\ exit_code' = 0
    /\ UNCHANGED <<db, PARALLELISM, BAD_IDS_SQL, total_fixes, chunks, output, fut, deleted,
                   completed, total_deleted, issued, step1_from, updates, rows0, run, prev>>

\* what main() prints last: SUCCESS only for a verification output of "0"
Verdict == IF remaining = <<"0">> THEN "SUCCESS" ELSE "WARNING"

Next ==
    \/ Discover
    \/ CountFixes
    \/ GetChunks
    \/ Step1
    \/ Step2
    \/ Submit
    \/ \E c \in Chunks : Start(c)
    \/ \E c \in Chunks : Decompress(c)
    \/ \E c \in Chunks : Delete(c)
    \/ \E c \in Chunks : Recompress(c)
    \/ \E c \in Chunks : Raise(c)
    \/ \E c \in Chunks : Collect(c)
    \/ \E c \in Chunks : CollectRaised(c)
    \/ Shutdown
    \/ Step2Done
    \/ Verify

Spec == Init /\ [][Next]_vars


\* every psql call returns and every thread that can take a step takes one
SpecLive == Spec /\ WF_vars(Next)

\* ------------------------------------------------------------- re-runs
\* the process starts again from its first line on the database as it is
Restart(how) ==
    /\ pc' = "discover"
    /\ BAD_IDS_SQL' = <<>>
    /\ total_fixes' = None
    /\ chunks' = <<>>
    /\ output' = None
    /\ fut' = [c \in Chunks |-> "none"]
    /\ deleted' = [c \in Chunks |-> 0]
    /\ completed' = 0
    /\ total_deleted' = 0
    /\ remaining' = None
    /\ exit_code' = 0
    /\ issued' = [c \in Chunks |-> <<>>]
    /\ step1_from' = <<>>
    /\ updates' = 0
    /\ errs' = {}
    /\ rows0' = rows
    /\ run' = "rerun"
    /\ prev' = [how |-> how, removed |-> SumOver(rows0, Chunks) - SumOver(rows, Chunks)]
    /\ UNCHANGED <<db, PARALLELISM>>

\* the process is killed between two psql calls, its threads with it
Interrupt ==
    /\ run = "first"
    /\ pc # "done"
    /\ Restart("interrupted")

\* the script is run again after it ended
Rerun ==
    /\ run = "first"
    /\ pc = "done"
    /\ Restart(IF errs = {} /\ exit_code = 0 THEN "clean" ELSE "failed")

NextRerun == Next \/ Interrupt \/ Rerun

SpecRerun == Init /\ [][NextRerun]_vars


\* ------------------------------------------------- update_fixes_parallel
\* the names of the compressed chunks, ORDER BY range_start, one per line
CompressedStdout ==
    LET ids == SelectSeq([c \in 1..Cardinality(Chunks) |-> c], LAMBDA c : is_compressed[c])
    IN  Join([i \in 1..Len(ids) |-> ChunkName(ids[i]) \o <<"\n">>], <<>>)

\* get_compressed_chunks(): [c.strip() for c in output.split('\n') if c.strip()]
get_compressed_chunks(out) ==
    LET parts == Split(out, "\n")
    IN  SelectSeq([i \in 1..Len(parts) |-> Strip(parts[i])], LAMBDA t : t # <<>>)

\* the chunks update_fixes_parallel listed
Listed == {ChunkOf(chunks[i]) : i \in 1..Len(chunks)}

UInit ==
    /\ \E n \in 0..MaxChunks :
         /\ is_compressed \in [1..n -> BOOLEAN]
         /\ rows \in [1..n -> 0..MaxRows]
    /\ script = "update_fixes_parallel"
    /\ bad_aircraft = FALSE
    /\ merge_mapping \in BOOLEAN
    /\ merge_mapping = FALSE => \A c \in Chunks : rows[c] = 0
    /\ PARALLELISM \in 0..MaxPar
    /\ pc = "u_prereq"
    /\ BAD_IDS_SQL = <<>>
    /\ total_fixes = None
    /\ chunks = <<>>
    /\ output = None
    /\ fut = [c \in Chunks |-> "none"]
    /\ deleted = [c \in Chunks |-> 0]
    /\ completed = 0
    /\ total_deleted = 0
    /\ remaining = None
    /\ exit_code = 0
    /\ issued = [c \in Chunks |-> <<>>]
    /\ step1_from = <<>>
    /\ updates = 0
    /\ errs = {}
    /\ rows0 = rows
    /\ run = "first"
    /\ prev = [how |-> "none", removed |-> 0]

\* main(), lines 118-125: sys.exit(1) unless aircraft_merge_mapping exists
UPrereq ==
    /\ pc = "u_prereq"
    /\ \E ok \in Outcomes :
         LET exists == run_sql(ok, IF merge_mapping THEN <<"t", "\n">> ELSE <<"f", "\n">>)
         IN  /\ errs' = Failed(ok, "exists", 0)
             /\ IF exists # <<"t">>
                THEN pc' = "done" /\ exit_code' = 1
                ELSE pc' = "u_count" /\ UNCHANGED exit_code
    /\ UNCHANGED <<db, PARALLELISM, BAD_IDS_SQL, total_fixes, chunks, output, fut, deleted,
                   completed, total_deleted, remaining, issued, step1_from, updates, rows0,
                   run, prev>>

\* main(), lines 127-128: the count of aircraft to merge, only printed
UAircraftCount ==
    /\ pc = "u_count"
    /\ \E ok \in Outcomes : errs' = Failed(ok, "aircraft_count", 0)
    /\ pc' = "u_get_chunks"
    /\ UNCHANGED <<db, PARALLELISM, BAD_IDS_SQL, total_fixes, chunks, output, fut, deleted,
                   completed, total_deleted, remaining, exit_code, issued, step1_from,
                   updates, rows0, run, prev>>

\* main(), lines 131-136: get_compressed_chunks(); None.split raises AttributeError
UGetChunks ==
    /\ pc = "u_get_chunks"
    /\ \E ok \in Outcomes :
         LET out == run_sql(ok, CompressedStdout)
         IN  /\ errs' = Failed(ok, "get_chunks", 0)
             /\ IF out = None
                THEN pc' = "done" /\ exit_code' = 1 /\ UNCHANGED chunks
                ELSE /\ chunks' = get_compressed_chunks(out)
                     /\ pc' = IF chunks' = <<>> THEN "u_direct" ELSE "u_step2"
                     /\ UNCHANGED exit_code
    /\ UNCHANGED <<db, PARALLELISM, BAD_IDS_SQL, total_fixes, output, fut, deleted,
                   completed, total_deleted, remaining, issued, step1_from, updates, rows0,
                   run, prev>>

\* main(), lines 136-149: no compressed chunk: one UPDATE of the whole table, its
\* return code not looked at, then return
UDirect ==
    /\ pc = "u_direct"
    /\ \E ok \in Outcomes :
         /\ rows' = IF ok THEN [c \in Chunks |-> 0] ELSE rows
         /\ errs' = Failed(ok, "update", 0)
    /\ updates' = updates + 1
    /\ pc' = "done"
    /\ exit_code' = 0
    /\ UNCHANGED <<is_compressed, static, PARALLELISM, BAD_IDS_SQL, total_fixes, chunks, output,
                   fut, deleted, completed, total_deleted, remaining, issued, step1_from,
                   rows0, run, prev>>

\* main(), lines 156 and 192: ThreadPoolExecutor(max_workers=PARALLELISM) raises
\* ValueError for max_workers <= 0
UStep2 ==
    /\ pc = "u_step2"
    /\ IF PARALLELISM <= 0
       THEN pc' = "done" /\ exit_code' = 1
       ELSE pc' = "u_submit2" /\ UNCHANGED exit_code
    /\ UNCHANGED <<db, PARALLELISM, BAD_IDS_SQL, total_fixes, chunks, output, fut, deleted,
                   completed, total_deleted, remaining, hist>>

\* lines 157 and 193: one task per listed chunk, submitted in list order
USubmit ==
    /\ pc \in {"u_submit2", "u_submit4"}
    /\ LET pending == {i \in 1..Len(chunks) : fut[ChunkOf(chunks[i])] = "none"}
           i == CHOOSE j \in pending : \A k \in pending : j <= k
       IN  /\ pending # {}
           /\ fut' = [fut EXCEPT ![ChunkOf(chunks[i])] = "queued"]
           /\ pc' = IF pending # {i} THEN pc
                    ELSE IF pc = "u_submit2" THEN "u_collect2" ELSE "u_collect4"
    /\ UNCHANGED <<db, PARALLELISM, BAD_IDS_SQL, total_fixes, chunks, output, deleted,
                   completed, total_deleted, remaining, exit_code, hist>>

\* a worker thread enters decompress_chunk(chunk) (step 2) or compress_chunk(chunk) (step 4)
UStart(c) ==
    /\ script = "update_fixes_parallel"
    /\ CanStart(c)
    /\ fut' = [fut EXCEPT ![c] = IF pc \in {"u_submit2", "u_collect2"} THEN "decompress"
                                 ELSE "compress"]
    /\ UNCHANGED <<db, PARALLELISM, pc, BAD_IDS_SQL, total_fixes, chunks, output, deleted,
                   completed, total_deleted, remaining, exit_code, hist>>

\* decompress_chunk(chunk): run_sql never raises, the task returns (chunk, duration, True)
UDecompress(c) ==
    /\ script = "update_fixes_parallel"
    /\ fut[c] = "decompress"
    /\ \E ok \in Outcomes :
         /\ is_compressed' = IF ok THEN [is_compressed EXCEPT ![c] = FALSE] ELSE is_compressed
         /\ errs' = Failed(ok, "decompress", c)
    /\ issued' = [issued EXCEPT ![c] = Append(@, "decompress")]
    /\ fut' = [fut EXCEPT ![c] = "finished"]
    /\ UNCHANGED <<rows, static, PARALLELISM, pc, BAD_IDS_SQL, total_fixes, chunks,
                   output, deleted, completed, total_deleted, remaining, exit_code,
                   step1_from, updates, rows0, run, prev>>

\* compress_chunk(chunk)
UCompress(c) ==
    /\ script = "update_fixes_parallel"
    /\ fut[c] = "compress"
    /\ \E ok \in Outcomes :
         /\ is_compressed' = IF ok THEN [is_compressed EXCEPT ![c] = TRUE] ELSE is_compressed
         /\ errs' = Failed(ok, "compress", c)
    /\ issued' = [issued EXCEPT ![c] = Append(@, "compress")]
    /\ fut' = [fut EXCEPT ![c] = "finished"]
    /\ UNCHANGED <<rows, static, PARALLELISM, pc, BAD_IDS_SQL, total_fixes, chunks,
                   output, deleted, completed, total_deleted, remaining, exit_code,
                   step1_from, updates, rows0, run, prev>>

\* one turn of `for future in as_completed(futures)` in step 2 or step 4
UCollect(c) ==
    /\ pc \in {"u_collect2", "u_collect4"}
    /\ fut[c] = "finished"
    /\ completed' = completed + 1
    /\ fut' = [fut EXCEPT ![c] = "collected"]
    /\ UNCHANGED <<db, PARALLELISM, pc, BAD_IDS_SQL, total_fixes, chunks, output, deleted,
                   total_deleted, remaining, exit_code, hist>>

\* UBulkUpdate for a main() that does not wait for the pool of step 2 to drain
UBulkUpdateEarly ==
    /\ pc = "u_collect2"
    /\ completed >= 1
    /\ \E ok \in Outcomes :
         /\ rows' = IF ok THEN [c \in Chunks |-> 0] ELSE rows
         /\ errs' = Failed(ok, "update", 0)
    /\ updates' = updates + 1
    /\ fut' = [c \in Chunks |-> "none"]
    /\ completed' = 0
    /\ pc' = "u_submit4"
    /\ UNCHANGED <<is_compressed, static, PARALLELISM, BAD_IDS_SQL, total_fixes, chunks, output,
                   deleted, total_deleted, remaining, exit_code, issued, step1_from, rows0,
                   run, prev>>

\* step 2's pool is shut down; step 3, lines 168-184: the bulk UPDATE, its return code
\* not looked at; step 4's pool is created and its counter reset
UBulkUpdate ==
    /\ pc = "u_collect2"
    /\ completed = Len(chunks)
    /\ \E ok \in Outcomes :
         /\ rows' = IF ok THEN [c \in Chunks |-> 0] ELSE rows
         /\ errs' = Failed(ok, "update", 0)
    /\ updates' = updates + 1
    /\ fut' = [c \in Chunks |-> "none"]
    /\ completed' = 0
    /\ pc' = "u_submit4"
    /\ UNCHANGED <<is_compressed, static, PARALLELISM, BAD_IDS_SQL, total_fixes, chunks, output,
                   deleted, total_deleted, remaining, exit_code, issued, step1_from, rows0,
                   run, prev>>

\* UVerify for a main() that does not wait for the pool of step 4 to drain
UVerifyEarly ==
    /\ pc = "u_collect4"
    /\ completed >= 1
    /\ \E ok \in Outcomes :
         /\ remaining' = run_sql(ok, Digits(IF SumOver(rows, Chunks) > 0 THEN 1 ELSE 0) \o <<"\n">>)
         /\ errs' = Failed(ok, "verify", 0)
    /\ pc' = "done"
    /\ exit_code' = 0
    /\ UNCHANGED <<db, PARALLELISM, BAD_IDS_SQL, total_fixes, chunks, output, fut, deleted,
                   completed, total_deleted, issued, step1_from, updates, rows0, run, prev>>

\* step 4's pool is shut down; lines 214-230: the verification count of the aircraft
\* ids that still have fixes; main returns
UVerify ==
    /\ pc = "u_collect4"
    /\ completed = Len(chunks)
    /\ \E ok \in Outcomes :
         /\ remaining' = run_sql(ok, Digits(IF SumOver(rows, Chunks) > 0 THEN 1 ELSE 0) \o <<"\n">>)
         /\ errs' = Failed(ok, "verify", 0)
    /\ pc' = "done"
    /\ exit_code' = 0
    /\ UNCHANGED <<db, PARALLELISM, BAD_IDS_SQL, total_fixes, chunks, output, fut, deleted,
                   completed, total_deleted, issued, step1_from, updates, rows0, run, prev>>

\* what update_fixes_parallel prints after its count: SUCCESS for "0", else nothing
UVerdict == IF remaining = <<"0">> THEN "SUCCESS" ELSE "NOTHING"

\* the (chunk, success) of the tuple decompress_chunk / compress_chunk returns, the
\* duration left out: run_sql returns None for a failed statement and does not raise,
\* so the try block always ends in `return (chunk, duration, True)`
UTaskResult(c) == <<ChunkName(c), TRUE>>

\* status = "OK" if success else "FAILED"
UStatus(c) == IF UTaskResult(c)[2] THEN "OK" ELSE "FAILED"

UNext ==
    \/ UPrereq
    \/ UAircraftCount
    \/ UGetChunks
    \/ UDirect
    \/ UStep2
    \/ USubmit
    \/ \E c \in Chunks : UStart(c)
    \/ \E c \in Chunks : UDecompress(c)
    \/ \E c \in Chunks : UCompress(c)
    \/ \E c \in Chunks : UCollect(c)
    \/ UBulkUpdate
    \/ UVerify

SpecUpdate == UInit /\ [][UNext]_vars

\* either script
SpecScripts == (Init \/ UInit) /\ [][Next \/ UNext]_vars

\* ------------------------------------------------------------------ properties
\* the chunks the run classified as compressed, and so gave a task
Tasks == {ChunkOf(compressed[i].name) : i \in 1..Len(compressed)}

\* C1: with parallelism N >= 1 at most N segment pipelines are in flight (between
\* the start of their decompress step and the end of their recompress step), and
\* so at most N are inside their mutate step.
C1_AtMostNInFlight ==
    (script = "migration_001" /\ PARALLELISM >= 1) =>
        /\ Cardinality(Running) <= PARALLELISM
        /\ Cardinality({c \in Chunks : fut[c] = "delete"}) <= PARALLELISM

\* N pipelines are in flight, one of them in its mutate step, and a task waits
C1_Witness ==
    /\ script = "migration_001"
    /\ PARALLELISM >= 1
    /\ Cardinality(Running) = PARALLELISM
    /\ \E c \in Chunks : fut[c] = "delete"
    /\ \E c \in Chunks : fut[c] = "queued"

\* C10: a task whose mutation step failed has still issued the recompress command
\* for its segment, after the mutation, by the time it returns its result.
C10_RecompressAfterFailedMutation ==
    \A c \in Chunks :
        (script = "migration_001" /\ fut[c] \in {"finished", "collected"}
           /\ Stmt("delete", c) \in errs) =>
            issued[c] = <<"decompress", "delete", "compress">>

\* a task has returned after its DELETE failed
C10_Witness ==
    \E c \in Chunks :
        /\ script = "migration_001"
        /\ fut[c] = "finished"
        /\ Stmt("delete", c) \in errs
        /\ deleted[c] = 0

\* the tuple (name, deleted, duration) a task returns, without the time
TaskResult(c) == <<TaskChunk(c).name, deleted[c]>>

\* the tuples the task of chunk c can return when its DELETE succeeded
SuccessResults(c) == {<<TaskChunk(c).name, n>> : n \in 0..SumOver(rows0, Chunks)}

\* the collected tasks whose result tells main() that they failed
segments_failed ==
    Cardinality({c \in Tasks : fut[c] = "collected" /\ TaskResult(c) \notin SuccessResults(c)})

\* the rows the run reports as removed: step 1's command tag and step 2's total
total_rows_affected == parse_delete_count(output) + total_deleted

\* the segments the run went through: those of step 1 and the collected tasks
segments_processed == Len(uncompressed) + completed

\* C2: when the mutation statement of exactly one compressed segment fails and every
\* other statement succeeds, every other task reports success, the run is not
\* aborted, and the run records one failed segment, not a success with zero rows.
C2_OneFailureIsRecorded ==
    \A c \in Chunks :
        (script = "migration_001" /\ pc = "done" /\ errs = {Stmt("delete", c)}) =>
            /\ \A d \in Tasks \ {c} : fut[d] = "collected" /\ TaskResult(d) \in SuccessResults(d)
            /\ exit_code = 0
            /\ remaining # None
            /\ TaskResult(c) # <<TaskChunk(c).name, 0>>
            /\ segments_failed = 1

QueryFailed == \E op \in {"discover", "count", "get_chunks", "verify"} : Stmt(op, 0) \in errs

\* C3: the process exits with code 0 only when the verification query returned zero
\* (or found nothing to do); when verification returns a non-zero count, or a
\* discovery or verification statement fails, it exits with a non-zero code.
C3_ExitCodeFollowsVerification ==
    (script = "migration_001" /\ pc = "done") =>
        /\ exit_code = 0 => (remaining = <<"0">> \/ (remaining = None /\ ~QueryFailed))
        /\ (QueryFailed \/ remaining \notin {None, <<"0">>}) => exit_code # 0

\* C6: a run in which all statements succeed reports as many rows as matched before
\* it, has gone through every segment of the catalog, has no failed segment, and
\* its verification count is 0.
C6_SummaryOfCleanRun ==
    (script = "migration_001" /\ pc = "done" /\ errs = {} /\ exit_code = 0
       /\ remaining # None) =>
        /\ total_rows_affected = SumOver(rows0, Chunks)
        /\ segments_processed = Cardinality(Chunks)
        /\ segments_failed = 0
        /\ remaining = <<"0">>

\* a clean run in which step 1 and a task both removed rows
C6_Witness ==
    /\ script = "migration_001"
    /\ pc = "done"
    /\ errs = {}
    /\ remaining = <<"0">>
    /\ parse_delete_count(output) > 0
    /\ total_deleted > 0

\* C7: step 1 removes no row of a segment classified as compressed and issues no
\* decompress or recompress command.
C7_Step1LeavesCompressedAlone ==
    (script = "migration_001" /\ pc = "step2" /\ errs = {} /\ PARALLELISM >= 1) =>
        /\ \A c \in Tasks : rows[c] = rows0[c]
        /\ \A c \in Chunks : issued[c] = <<>>

\* C4: a run started from step 1 after an interrupted run, with a valid parallelism
\* and every statement succeeding, ends with no matching row left and, when it
\* verifies, a verification count of zero.
C4_RerunAfterInterruptConverges ==
    (script = "migration_001" /\ run = "rerun" /\ prev.how = "interrupted"
       /\ PARALLELISM >= 1 /\ pc = "done") =>
        /\ SumOver(rows, Chunks) = 0
        /\ remaining \in {None, <<"0">>}

\* a re-run after an interruption that found rows left, in compressed and in
\* uncompressed chunks, and verified a count of zero
C4_Witness ==
    /\ script = "migration_001"
    /\ run = "rerun"
    /\ prev.how = "interrupted"
    /\ pc = "done"
    /\ remaining = <<"0">>
    /\ parse_delete_count(output) > 0
    /\ total_deleted > 0

\* C5: a run that follows a run in which every statement succeeded, itself with every
\* statement succeeding, affects zero rows and has no failed segment.
C5_SecondRunIsNoOp ==
    (script = "migration_001" /\ run = "rerun" /\ prev.how = "clean") =>
        /\ total_rows_affected = 0
        /\ segments_failed = 0
        /\ rows = rows0

\* the second of two clean runs has ended, the first having removed rows
C5_Witness ==
    /\ script = "migration_001"
    /\ run = "rerun"
    /\ prev.how = "clean"
    /\ prev.removed > 0
    /\ pc = "done"
    /\ total_fixes = <<"0">>

\* the run has ended after its catalog query gave it an empty list of chunks
CatalogEmpty ==
    /\ pc = "done"
    /\ chunks = <<>>
    /\ IF script = "migration_001"
       THEN remaining # None \/ Stmt("verify", 0) \in errs
       ELSE exit_code = 0

C9_CatalogFailureAborts ==
    Stmt("get_chunks", 0) \in errs =>
        /\ pc = "done"
        /\ exit_code # 0
        /\ step1_from = <<>>
        /\ updates = 0

\* C11: whichever tasks fail, through an SQL error in any step or by raising, a run
\* with a valid parallelism ends only after every compressed segment's task has run,
\* every result has been collected and the run has gone on to its end-of-run report.
C11_FailuresAreContained ==
    (script = "migration_001" /\ pc = "done" /\ PARALLELISM >= 1 /\ Tasks # {}) =>
        /\ \A c \in Tasks : fut[c] \notin {"none", "queued"}
        /\ \A c \in Tasks : fut[c] = "collected"
        /\ completed = Len(compressed)
        /\ remaining # None \/ Stmt("verify", 0) \in errs

\* the commands of one task, in the order of process_compressed_chunk
Pipeline == <<"decompress", "delete", "compress">>

\* C12: the commands issued for a task's segment are, at every moment, the first k of
\* decompress, mutate, recompress, each once and in that order, as far as the task
\* has got; a task that has returned its tuple has issued all three, the recompress
\* last.
C12_PipelineOrder ==
    script = "migration_001" =>
        \A c \in Chunks :
            /\ fut[c] \in {"none", "queued", "decompress"} => issued[c] = <<>>
            /\ fut[c] = "delete" => issued[c] = SubSeq(Pipeline, 1, 1)
            /\ fut[c] = "compress" => issued[c] = SubSeq(Pipeline, 1, 2)
            /\ fut[c] \in {"finished", "collected"} => issued[c] = Pipeline
            /\ fut[c] = "raised" => \E k \in 0..2 : issued[c] = SubSeq(Pipeline, 1, k)

\* one task has returned while another is between its decompress and its mutation
C12_Witness ==
    /\ script = "migration_001"
    /\ \E c, d \in Chunks :
          /\ fut[c] = "finished"
          /\ issued[c] = Pipeline
          /\ fut[d] = "delete"

\* step 1's statement went through and its range holds chunk c
Step1Covered(c) ==
    /\ step1_from # <<>>
    /\ Stmt("step1", 0) \notin errs
    /\ RangeStart(c) >= step1_from[1]

\* C13: a task whose decompress command failed still issues its mutation statement
\* and then its recompress command, and returns; when the mutation went through it
\* returns the rows that statement removed, exactly as after a successful decompress.
C13_DecompressFailureIsSoft ==
    \A c \in Chunks :
        (script = "migration_001" /\ Stmt("decompress", c) \in errs) =>
            /\ fut[c] # "decompress"
            /\ fut[c] \in {"finished", "collected"} => issued[c] = Pipeline
            /\ (fut[c] \in {"finished", "collected"} /\ Stmt("delete", c) \notin errs) =>
                  /\ rows[c] = 0
                  /\ deleted[c] = (IF Step1Covered(c) THEN 0 ELSE rows0[c])

\* a task has returned the rows it removed after its decompress command failed
C13_Witness ==
    \E c \in Chunks :
        /\ script = "migration_001"
        /\ Stmt("decompress", c) \in errs
        /\ fut[c] = "finished"
        /\ issued[c] = Pipeline
        /\ deleted[c] > 0

\* the count the mutation step of chunk c's task gave: 0 when the DELETE failed, else
\* the rows of the chunk that step 1 had left
MutationCount(c) ==
    IF Stmt("delete", c) \in errs \/ Step1Covered(c) THEN 0 ELSE rows0[c]

\* C14: the tuple a task returns is fixed by its mutation step: the segment's name and
\* the mutation's count, the same whether the recompress command then succeeded or
\* failed.
C14_RecompressDoesNotChangeResult ==
    \A c \in Chunks :
        (script = "migration_001" /\ fut[c] \in {"finished", "collected"}) =>
            TaskResult(c) = <<ChunkName(c), MutationCount(c)>>

\* a task has returned the rows it removed although its recompress command failed
C14_Witness ==
    \E c \in Chunks :
        /\ script = "migration_001"
        /\ fut[c] = "finished"
        /\ Stmt("compress", c) \in errs
        /\ deleted[c] > 0

\* C15: step 1 and step 2 are sequential: as long as step 1's statement has not
\* returned, no task has been submitted or started and no decompress command has
\* been issued.
C15_FastPathBeforeTasks ==
    (script = "migration_001" /\ pc \in {"discover", "count", "get_chunks", "step1"}) =>
        \A c \in Chunks : fut[c] = "none" /\ issued[c] = <<>>

\* step 1's statement has returned and a task is about to issue its decompress command
C15_Witness ==
    /\ script = "migration_001"
    /\ step1_from # <<>>
    /\ pc \in {"submit", "collect"}
    /\ \E c \in Chunks : fut[c] = "decompress" /\ issued[c] = <<>>

\* the chunks whose rows the DELETE of chunk c's task selects
Target(c) == ChunksBetween(TaskChunk(c).range_start, TaskChunk(c).range_end)

Times(s, cmd) == Len(SelectSeq(s, LAMBDA x : x = cmd))

\* C16: a run has one task for each segment it classified as compressed and none for
\* a segment it classified as uncompressed; no segment is the target of two tasks
\* (no command is issued twice for it), and the rows two tasks select are disjoint,
\* each task selecting the rows of its own segment.
C16_OneTaskPerCompressedSegment ==
    script = "migration_001" =>
        /\ Cardinality(Tasks) = Len(compressed)
        /\ \A i \in 1..Len(uncompressed) :
              LET u == ChunkOf(uncompressed[i].name)
              IN  fut[u] = "none" /\ issued[u] = <<>>
        /\ pc \in {"collect", "shutdown"} => \A c \in Tasks : fut[c] # "none"
        /\ \A c \in Chunks : \A cmd \in {"decompress", "delete", "compress"} :
              Times(issued[c], cmd) <= 1
        /\ \A c \in Tasks : Target(c) = {c}
        /\ \A c, e \in Tasks : c # e => Target(c) \cap Target(e) = {}

\* two tasks are in their mutation step at the same time
C16_Witness ==
    /\ script = "migration_001"
    /\ \E c, e \in Tasks : c # e /\ fut[c] = "delete" /\ fut[e] = "delete"

\* the tasks submitted to the pool that have not finished
Unfinished == {c \in Chunks : fut[c] \in {"queued", "decompress", "delete", "compress"}}

\* C17 as stated: the tasks submitted to the pool and not yet finished are never more
\* than `parallelism`.
C17_SubmissionBounded ==
    (script = "migration_001" /\ PARALLELISM >= 1 /\ errs = {}) =>
        Cardinality(Unfinished) <= PARALLELISM

\* C17 as amended: submission never waits for a worker (while main() is submitting,
\* the next submit can always be taken); the tasks submitted and not finished are
\* bounded by the number of compressed segments, and only the tasks that have
\* started and not finished are bounded by `parallelism`.
C17_SubmissionNeverBlocks ==
    (script = "migration_001" /\ PARALLELISM >= 1) =>
        /\ pc = "submit" => ENABLED Submit
        /\ Cardinality(Unfinished) <= Len(compressed)
        /\ Cardinality(Unfinished \ {c \in Chunks : fut[c] = "queued"}) <= PARALLELISM

\* every worker is busy and a further task has been submitted and waits in the queue
C17_Witness ==
    /\ script = "migration_001"
    /\ PARALLELISM >= 1
    /\ Cardinality(Running) = PARALLELISM
    /\ \E c \in Chunks : fut[c] = "queued"
    /\ Cardinality(Unfinished) > PARALLELISM

\* C18: with a parallelism argument below 1 the run is aborted before a statement that
\* removes rows or changes a segment's compression state is issued.
C18_BadParallelismAbortsFirst ==
    (script = "migration_001" /\ PARALLELISM < 1 /\ errs = {}) =>
        /\ step1_from = <<>>
        /\ \A c \in Chunks : issued[c] = <<>>
        /\ rows = rows0

\* the run has ended after issuing its verification query
Verified == pc = "done" /\ (remaining # None \/ Stmt("verify", 0) \in errs)

\* the last thing the run prints about its verification
Report == IF script = "migration_001" THEN Verdict ELSE UVerdict

\* the chunks the run dispatched tasks for
Dispatched == IF script = "migration_001" THEN Tasks ELSE Listed

\* when the verification query is issued, step 1 is over and every dispatched task
\* has been collected, its recompress command the last one issued for its chunk
VerificationIsLast ==
    Verified =>
        /\ (script = "migration_001" /\ uncompressed # <<>>) => step1_from # <<>>
        /\ \A c \in Dispatched :
              /\ fut[c] = "collected"
              /\ issued[c] # <<>>
              /\ issued[c][Len(issued[c])] = "compress"

\* C19 as stated: the verification query comes after step 1 and after every dispatched
\* task, recompress included; the run reports SUCCESS exactly when the query returned
\* "0", and reports any other or missing count as incomplete, asking for a re-run.
C19_VerifyLastAndAskRerun ==
    /\ VerificationIsLast
    /\ Verified =>
          /\ Report = "SUCCESS" <=> remaining = <<"0">>
          /\ remaining # <<"0">> => Report = "WARNING"

\* C19 as amended: the same order; SUCCESS exactly for a count of "0"; for any other
\* or missing count migration 001 prints its WARNING asking for a re-run, while
\* update_fixes_parallel prints the count and nothing more.
C19_VerifyLastAndReport ==
    /\ VerificationIsLast
    /\ Verified =>
          /\ Report = "SUCCESS" <=> remaining = <<"0">>
          /\ remaining # <<"0">> =>
                Report = (IF script = "migration_001" THEN "WARNING" ELSE "NOTHING")

\* migration 001 has verified after step 1 and a task whose DELETE failed: a row is
\* left and the run asks for a re-run
C19_Witness ==
    /\ script = "migration_001"
    /\ Verified
    /\ step1_from # <<>>
    /\ \E c \in Tasks : fut[c] = "collected" /\ Stmt("delete", c) \in errs
    /\ remaining = <<"1">>
    /\ Report = "WARNING"

\* the tasks whose result main() has added to its total
Collected == {c \in Tasks : fut[c] = "collected"}

\* future.result() has raised a task's exception in main()
Reraised == pc = "shutdown" \/ (pc = "done" /\ \E c \in Tasks : fut[c] = "raised")

\* C20: in whatever order the tasks complete, the total is the sum of the counts of
\* the results collected so far and, once the loop has ended, of all tasks; the
\* completion counter goes up by one with each result, through 1..n, and ends at
\* n, the number of compressed segments.
C20_AggregationIsOrderIndependent ==
    /\ [](script = "migration_001" =>
            /\ total_deleted = SumOver(deleted, Collected)
            /\ completed = Cardinality(Collected) + (IF Reraised THEN 1 ELSE 0)
            /\ (pc = "verify" \/ Verified) =>
                  /\ completed = Len(compressed)
                  /\ total_deleted = SumOver(deleted, Tasks))
    /\ [][(script = "migration_001" /\ completed' # completed) =>
            /\ completed' = completed + 1
            /\ completed' \in 1..Len(compressed)]_vars

\* the task submitted second is the first one collected, and it removed rows
C20_Witness ==
    /\ script = "migration_001"
    /\ Len(compressed) = 2
    /\ completed = 1
    /\ fut[ChunkOf(compressed[2].name)] = "collected"
    /\ fut[ChunkOf(compressed[1].name)] \in {"decompress", "delete", "compress"}
    /\ total_deleted > 0

\* ------------------------------------------------- parse_delete_count alone
\* the texts handed to parse_delete_count: None, the empty text, and what psql may
\* print: an optional SET line, a command tag name, and up to MaxLen further
\* characters, optionally followed by the tag of a second statement
ParseAlphabet == {"0", "2", "4", "x", " ", "\n"}

ParseInputs ==
    {None, <<>>} \cup
    {pre \o tag \o sep \o suf \o post :
        pre \in {<<>>, <<"S", "E", "T", "\n">>},
        tag \in {DELETE, <<"U", "P", "D", "A", "T", "E">>},
        sep \in {<<>>, <<" ">>},
        suf \in UNION {[1..n -> ParseAlphabet] : n \in 0..MaxLen},
        post \in {<<>>, <<"\n">> \o DeleteTag(2)}}

ParseInit ==
    /\ is_compressed = <<>>
    /\ rows = <<>>
    /\ script = "parse_delete_count"
    /\ merge_mapping = FALSE
    /\ bad_aircraft = FALSE
    /\ PARALLELISM = 1
    /\ pc = "parse"
    /\ BAD_IDS_SQL = <<>>
    /\ total_fixes = None
    /\ chunks = <<>>
    /\ output \in ParseInputs
    /\ fut = <<>>
    /\ deleted = <<>>
    /\ completed = 0
    /\ total_deleted = 0
    /\ remaining = None
    /\ exit_code = 0
    /\ issued = <<>>
    /\ step1_from = <<>>
    /\ updates = 0
    /\ errs = {}
    /\ rows0 = <<>>
    /\ run = "first"
    /\ prev = [how |-> "none", removed |-> 0]

\* deleted = parse_delete_count(output)
ParseCall ==
    /\ script = "parse_delete_count"
    /\ pc = "parse"
    /\ total_deleted' = parse_delete_count(output)
    /\ pc' = "parsed"
    /\ UNCHANGED <<db, PARALLELISM, BAD_IDS_SQL, total_fixes, chunks, output, fut, deleted,
                   completed, remaining, exit_code, hist>>

SpecParse == ParseInit /\ [][ParseCall]_vars

\* the text between the first DELETE of t and the next one, stripped, has no
\* parseable number: it is empty or holds a character that is not a digit
NoNumber(t) ==
    LET txt == Strip(SplitSecond(t, DELETE))
    IN  txt = <<>> \/ \E i \in 1..Len(txt) : ~IsDigit(txt[i])

\* C21: parse_delete_count returns N for the text "DELETE <N>" (42 for "DELETE 42",
\* 0 for "DELETE 0"), returns 0 for None, for the empty text, for a text without
\* DELETE and for a text with no parseable number after DELETE, and never raises.
C21_ParseDeleteCount ==
    (script = "parse_delete_count" /\ pc = "parsed") =>
        /\ total_deleted \in Nat
        /\ \A n \in 0..99 : output = DeleteTag(n) => total_deleted = n
        /\ output = DELETE \o <<" ", "4", "2">> => total_deleted = 42
        /\ output = DELETE \o <<" ", "0">> => total_deleted = 0
        /\ output \in {None, <<>>} => total_deleted = 0
        /\ (output # None /\ Find(output, DELETE) = 0) => total_deleted = 0
        /\ (output # None /\ Find(output, DELETE) # 0 /\ NoNumber(output)) => total_deleted = 0

\* "DELETE 42" has been parsed to 42
C21_Witness ==
    /\ script = "parse_delete_count"
    /\ pc = "parsed"
    /\ output = DELETE \o <<" ", "4", "2">>
    /\ total_deleted = 42

\* C22: the classification of the snapshot holds for the whole run: a segment classified
\* as uncompressed gets no task and no decompress or compress command, and no
\* segment is handled by both paths, its rows removed by step 1's statement and its
\* decompress, mutate, recompress task run as well.
C22_OnePathPerSegment ==
    (script = "migration_001" /\ errs = {}) =>
        /\ \A i \in 1..Len(uncompressed) :
              LET u == ChunkOf(uncompressed[i].name)
              IN  fut[u] = "none" /\ issued[u] = <<>>
        /\ \A c \in Chunks : ~(Step1Covered(c) /\ rows0[c] > 0 /\ issued[c] # <<>>)

\* C23: a decompress or compress task of update_fixes_parallel that has returned
\* reports success = False, and the run prints FAILED for it, when its SQL
\* statement failed, and success = True, printed as OK, only when it succeeded.
C23_SuccessFollowsStatement ==
    \A c \in Chunks :
        (script = "update_fixes_parallel" /\ fut[c] \in {"finished", "collected"}
           /\ errs \subseteq {Stmt("decompress", c), Stmt("compress", c)}) =>
            LET cmd == issued[c][Len(issued[c])]
                ok  == Stmt(cmd, c) \notin errs
            IN  /\ UTaskResult(c)[2] = ok
                /\ UStatus(c) = (IF ok THEN "OK" ELSE "FAILED")

\* C24: in update_fixes_parallel the bulk UPDATE is issued only when every decompress
\* task of step 2 has finished, a compress command is issued only after the bulk
\* UPDATE has returned, and in steps 2 and 4 at most PARALLELISM commands are in
\* flight.
C24_PhasesAreBarriers ==
    script = "update_fixes_parallel" =>
        /\ (updates >= 1 /\ chunks # <<>>) =>
              \A c \in Listed : issued[c] # <<>> /\ issued[c][1] = "decompress"
        /\ pc \in {"u_submit2", "u_collect2"} =>
              /\ updates = 0
              /\ \A c \in Chunks : fut[c] # "compress" /\ Times(issued[c], "compress") = 0
        /\ \A c \in Chunks :
              (fut[c] = "compress" \/ Times(issued[c], "compress") > 0) => updates = 1
        /\ PARALLELISM >= 1 => Cardinality(Running) <= PARALLELISM

\* step 4 after the bulk UPDATE: every worker is busy with a compress command and a
\* further compress task waits
C24_Witness ==
    /\ script = "update_fixes_parallel"
    /\ updates = 1
    /\ PARALLELISM >= 1
    /\ Cardinality({c \in Chunks : fut[c] = "compress"}) = PARALLELISM
    /\ \E c \in Chunks : fut[c] = "queued"
    /\ \A c \in Listed : issued[c] = <<"decompress">>

\* the chunks the run's snapshot flagged as compressed
Flagged ==
    IF script = "migration_001"
    THEN {ChunkOf(chunks[i].name) : i \in {j \in 1..Len(chunks) : chunks[j].compressed}}
    ELSE Listed

\* C25: decompress and compress commands go only to segments the snapshot flagged as
\* compressed: a segment outside that set has no command issued for it and, when
\* the catalog was read, is still uncompressed; the set of segments stays what it
\* was when the run started.
C25_OnlyFlaggedSegmentsToggled ==
    script \in {"migration_001", "update_fixes_parallel"} =>
        /\ \A c \in Chunks \ Flagged :
              /\ issued[c] = <<>>
              /\ fut[c] = "none"
              /\ chunks # <<>> => ~is_compressed[c]
        /\ \A c \in Chunks : \A i \in 1..Len(issued[c]) :
              issued[c][i] \in {"decompress", "delete", "compress"}
        /\ DOMAIN rows = DOMAIN rows0
        /\ DOMAIN is_compressed = DOMAIN rows0

\* migration 001 has ended: the compressed chunk had its three commands, the
\* uncompressed one none
C25_Witness ==
    /\ script = "migration_001"
    /\ pc = "done"
    /\ \E c \in Flagged : issued[c] = Pipeline
    /\ \E c \in Chunks \ Flagged : issued[c] = <<>> /\ ~is_compressed[c]

\* C26: when a run has ended with no statement failed, every segment it decompressed
\* has had its compress command after the decompress, and every segment is in the
\* compression state of the snapshot: the flagged segments compressed, the others
\* untouched.
C26_NoSegmentLeftDecompressed ==
    (script \in {"migration_001", "update_fixes_parallel"} /\ pc = "done" /\ errs = {}) =>
        \A c \in Chunks :
            IF c \in Flagged
            THEN /\ is_compressed[c]
                 /\ issued[c] \in {<<>>, Pipeline, <<"decompress", "compress">>}
            ELSE /\ issued[c] = <<>>
                 /\ chunks # <<>> => ~is_compressed[c]

\* update_fixes_parallel has ended without a failed statement after decompressing,
\* updating and recompressing a chunk
C26_Witness ==
    /\ script = "update_fixes_parallel"
    /\ pc = "done"
    /\ errs = {}
    /\ remaining = <<"0">>
    /\ \E c \in Flagged :
          /\ rows0[c] > 0
          /\ issued[c] = <<"decompress", "compress">>
          /\ is_compressed[c]

\* C27: when every SQL call returns, a run with parallelism >= 1 ends, and when it
\* has ended every task submitted to the pool has completed (the pool is shut down
\* before main() goes on); when the loop over the results has ended (no task
\* raised), the progress line was printed once for each compressed segment.
C27_RunTerminates ==
    /\ (script = "migration_001" /\ PARALLELISM >= 1) ~> (pc = "done")
    /\ []((script = "migration_001" /\ PARALLELISM >= 1 /\ pc \in {"verify", "done"}) =>
              /\ \A c \in Chunks : fut[c] \in {"none", "finished", "collected", "raised"}
              /\ ~Reraised =>
                    /\ completed = Len(compressed)
                    /\ \A c \in Tasks : fut[c] = "collected")

\* a run over two compressed segments has ended with both results collected
C27_Witness ==
    /\ script = "migration_001"
    /\ PARALLELISM >= 1
    /\ pc = "done"
    /\ Len(compressed) = 2
    /\ completed = 2
    /\ \A c \in Tasks : fut[c] = "collected"

\* C28: in migration 001, once discovery has found no id or the initial count is "0",
\* the run is at its end: it never reads the catalog and issues no decompress,
\* mutation or compress command, so no row and no compression flag is touched.
C28_ConvergedRelationUntouched ==
    (script = "migration_001" /\ pc # "discover"
       /\ (BAD_IDS_SQL = <<>> \/ total_fixes = <<"0">>)) =>
        /\ pc = "done"
        /\ exit_code = 0
        /\ chunks = <<>>
        /\ Stmt("get_chunks", 0) \notin errs
        /\ step1_from = <<>>
        /\ \A c \in Chunks : issued[c] = <<>> /\ fut[c] = "none"
        /\ rows = rows0

\* the count was "0" on a relation that has a compressed chunk, and the run has ended
C28_Witness ==
    /\ script = "migration_001"
    /\ pc = "done"
    /\ total_fixes = <<"0">>
    /\ \E c \in Chunks : is_compressed[c] /\ issued[c] = <<>>

\* C29: the global filter BAD_IDS_SQL is written once, by discovery, before step 1 and
\* before any task exists; from then on step 1, every task and the verification
\* read that one value, and no step writes it while a task is queued or running.
C29_FilterFixedBeforeTasks ==
    /\ [](script = "migration_001" =>
            /\ pc \notin {"discover", "done"} => BAD_IDS_SQL = <<"'", "7", "'">>
            /\ \A c \in Chunks : fut[c] # "none" => BAD_IDS_SQL = <<"'", "7", "'">>)
    /\ [][(script = "migration_001" /\ BAD_IDS_SQL' # BAD_IDS_SQL) =>
            /\ pc = "discover"
            /\ BAD_IDS_SQL = <<>>
            /\ \A c \in Chunks : fut[c] = "none"]_vars

\* a task has removed rows with the filter and another is in its mutation step
C29_Witness ==
    /\ script = "migration_001"
    /\ BAD_IDS_SQL = <<"'", "7", "'">>
    /\ \E c, e \in Tasks :
          /\ fut[c] \in {"finished", "collected"}
          /\ deleted[c] > 0
          /\ fut[e] = "delete"

====
